---- MODULE Spec2Model ----
(***************************************************************************)
(* Model of the CodePassport scan engine: POST /scan creates a row in the  *)
(* 'scans' table and a worker (runBackgroundScan in the fire-and-forget    *)
(* iterations, taskList.scan_repo in the graphile-worker iterations) runs  *)
(* Trivy, the SBOM generation, the clone plus Gitleaks scan, grades the    *)
(* findings, renders and uploads the certificate and writes the result.    *)
(*                                                                         *)
(* The repository holds several iterations of scan.js side by side; the    *)
(* variable version selects which one is deployed:                         *)
(*   v1  src/unnamed/part_000:1-174    Trivy only, webhook, FAILED status  *)
(*   v2  src/unnamed/part_000:371-613  + Gitleaks, PDF, upload checked     *)
(*   v4  src/scan.js:1-226             status COMPLETED whatever the grade *)
(*       (v5, src/unnamed/part_000:693-887, runs the same pipeline)        *)
(*   v6  src/unnamed/part_000:175-370  graphile-worker queue, re-throw     *)
(*   v9  src/scan.js:227-463           + SBOM stage                        *)
(*                                                                         *)
(* Spec follows one job stage by stage, SpecGrade applies the grading to   *)
(* every report within the bounds, SpecPool follows several jobs for one   *)
(* repository turn by turn of the event loop, SpecCrash adds the death and *)
(* restart of the process to Spec, SpecExec runs the scanner stages for    *)
(* any repo and token a request can carry.                                 *)
(***************************************************************************)
EXTENDS Integers, Sequences, FiniteSets, TLC

\* ------------------------------------------------------------------ bounds
MaxTargets == 2     \* targets in one Trivy report
MaxFindings == 2    \* findings one scan yields, Trivy's and Gitleaks's together
MaxAttempts == 2    \* attempts the queue gives one job
MaxJobs == 3        \* requests the pool specification sends

\* ------------------------------------------------------------ fixed values
Versions == {"v1", "v2", "v4", "v6", "v9"}
\* The rows of table 'scans'. The pipeline of a job reads and writes only the
\* row, the objects and the files named after its scanId.
Jobs == {1}
\* The rows of the pool specification, which follows several jobs at the
\* grain of the event loop's turns.
PoolJobs == 1 .. MaxJobs

Null == "null"
NoUrl == << >>

\* Repository URLs a request can carry in req.body.repo, as sequences of
\* pieces of text, so that includes and replace are real string operations.
CleanRepo == << "https://", "github.com", "/o/clean" >>
ViralRepo == << "https://", "github.com", "/o/viral" >>
Repos == {CleanRepo, ViralRepo}

\* A personal access token a request can carry in req.body.token.
Token == "ghp_token"

\* const { repo, token, userId } = req.body: the public repository is asked
\* for without a token, the private one with one.
Requests ==
    {[repo |-> CleanRepo, token |-> Null], [repo |-> ViralRepo, token |-> Token]}

\* What /bin/sh, which execSync hands its command line to, reads as the end
\* of a word and as the end of a command.
Blanks == {" "}
Operators == {";"}

\* Other values req.body.repo can hold, the handler testing only that it is
\* not empty: a repository of another host, a URL of another host with
\* github.com in its path, a URL with another scheme, and URLs followed by
\* text the shell gives a meaning to.
OtherHostRepo == << "https://", "gitlab.com", "/o/r" >>
LookalikeRepo == << "https://", "evil.example", "/", "github.com", "/o/r" >>
HttpRepo == << "http://", "github.com", "/o/r" >>
ArgumentRepo == << "https://", "github.com", "/o/r", " ", "--debug" >>
CommandRepo == << "https://", "github.com", "/o/r", ";", "id" >>

\* Any repo and token a request can carry; a token is any text, ";" too.
AnyRequests ==
    [repo : Repos \cup {OtherHostRepo, LookalikeRepo, HttpRepo, ArgumentRepo,
                        CommandRepo},
     token : {Null, Token, ";"}]

\* Places outside the process's memory a text can be written to: the
\* process's log (console.log, console.error), an error report sent to
\* Sentry, the payload of the queue's job, the row of table 'scans'.
Sinks == {"log", "report", "queue", "record"}

\* License identifiers are character sequences, so that String.includes is
\* a real substring test.
MIT == << "M", "I", "T" >>
GPL3 == << "G", "P", "L", "-", "3" >>
LGPL == << "L", "G", "P", "L", "-", "2" >>
LicenseNames == {MIT, GPL3, LGPL}
Severities == {"CRITICAL", "HIGH"}
SecretRules == {"aws-access-token", "generic-api-key"}

\* ['AGPL', 'GPL', 'SSPL']
ViralPatterns ==
    << << "A", "G", "P", "L" >>, << "G", "P", "L" >>, << "S", "S", "P", "L" >> >>

\* ----------------------------------------------------- scanner output model
\* An optional JSON member is a sequence of length 0 (absent) or 1 (present).
Absent == << >>
Present(x) == << x >>

SeqsUpTo(S, n) == UNION {[1 .. k -> S] : k \in 0 .. n}
OptSeqs(S, n) == {Absent} \cup {Present(s) : s \in SeqsUpTo(S, n)}
OptLen(o) == IF o = Absent THEN 0 ELSE Len(o[1])

LicenseItems == {[Name |-> n] : n \in LicenseNames}
VulnItems == {[Severity |-> s] : s \in Severities}

TargetSize(t) == OptLen(t.Licenses) + OptLen(t.Vulnerabilities)

\* Targets of a Trivy report carrying at most b findings.
TargetsUpTo(b) ==
    {t \in [Licenses : OptSeqs(LicenseItems, b),
            Vulnerabilities : OptSeqs(VulnItems, b)] : TargetSize(t) <= b}

RECURSIVE ResultLists(_, _)
\* Sequences of exactly k targets carrying at most b findings in total.
ResultLists(k, b) ==
    IF k = 0 THEN {<< >>}
    ELSE UNION {{<< t >> \o r : r \in ResultLists(k - 1, b - TargetSize(t))} :
                    t \in TargetsUpTo(b)}

\* What JSON.parse(output) of a Trivy run can be: an object whose Results
\* member is absent or a list of targets. Every license carries a Name and
\* every vulnerability a Severity, as in Trivy's report schema.
TrivyReports ==
    {[Results |-> Absent]} \cup
    {[Results |-> Present(r)] :
        r \in UNION {ResultLists(k, MaxFindings) : k \in 0 .. MaxTargets}}

\* let scanResults = {}
EmptyObject == [Results |-> Absent]

\* What JSON.parse(leaks.json) can be: a list of findings.
SecretItems == {[RuleID |-> r] : r \in SecretRules}
GitleaksReports == SeqsUpTo(SecretItems, MaxFindings)

RECURSIVE SumSizes(_)
SumSizes(results) ==
    IF results = << >> THEN 0 ELSE TargetSize(Head(results)) + SumSizes(Tail(results))

ReportSize(report) ==
    IF report.Results = Absent THEN 0 ELSE SumSizes(report.Results[1])


\* Reports the Trivy stage of the pipeline specification draws from: no
\* Results member, nothing to report, a permissive license with a HIGH
\* vulnerability, a CRITICAL vulnerability, a viral license.
SampleReports ==
    { [Results |-> Absent],
      [Results |-> Present(<< >>)],
      [Results |-> Present(<< [Licenses |-> Present(<< [Name |-> MIT] >>),
                               Vulnerabilities |-> Present(<< [Severity |-> "HIGH"] >>)] >>)],
      [Results |-> Present(<< [Licenses |-> Absent,
                               Vulnerabilities |-> Present(<< [Severity |-> "CRITICAL"] >>)] >>)],
      [Results |-> Present(<< [Licenses |-> Present(<< [Name |-> GPL3] >>),
                               Vulnerabilities |-> Absent] >>)] }

SampleLeaks == { << >>, << [RuleID |-> "aws-access-token"] >> }

\* ------------------------------------------------------------------ grading
\* String.prototype.includes
Includes(s, p) ==
    \E i \in 0 .. (Len(s) - Len(p)) : SubSeq(s, i + 1, i + Len(p)) = p

\* String.prototype.indexOf, counted from 0; -1 if p does not occur.
IndexOf(s, p) ==
    IF Includes(s, p)
    THEN CHOOSE i \in 0 .. (Len(s) - Len(p)) :
             /\ SubSeq(s, i + 1, i + Len(p)) = p
             /\ \A h \in 0 .. (i - 1) : SubSeq(s, h + 1, h + Len(p)) # p
    ELSE -1

\* String.prototype.replace with a string pattern: the first occurrence.
Replace(s, p, r) ==
    LET i == IndexOf(s, p)
    IN  IF i < 0 THEN s
        ELSE SubSeq(s, 1, i) \o r \o SubSeq(s, i + Len(p) + 1, Len(s))

\* let authRepo = repo; if (token && repo.includes('github.com')) {
\*   const cleanUrl = repo.replace('https://', '');
\*   authRepo = `https://${token}@${cleanUrl}`; }
AuthRepo(repo, token) ==
    IF token # Null /\ Includes(repo, << "github.com" >>)
    THEN << "https://", token, "@" >> \o Replace(repo, << "https://" >>, << >>)
    ELSE repo

\* `trivy repo ${authRepo} --scanners license,vuln --format json ...`: the
\* text of the template literal with authRepo put in, blanks kept apart.
TrivyCommand(authRepo) ==
    << "trivy", " ", "repo", " " >> \o authRepo
        \o << " ", "--scanners", " ", "license,vuln", " ", "--format", " ",
              "json", " ", "--timeout", " ", "30m", " ", "--quiet" >>

\* `trivy repo ${authRepo} --format cyclonedx --output ${sbomPath} --quiet`
SbomCommand(authRepo) ==
    << "trivy", " ", "repo", " " >> \o authRepo
        \o << " ", "--format", " ", "cyclonedx", " ", "--output", " ",
              "sbomPath", " ", "--quiet" >>

\* `git clone --depth 1 ${authRepo} ${tempDir}`
CloneCommand(authRepo) ==
    << "git", " ", "clone", " ", "--depth", " ", "1", " " >> \o authRepo
        \o << " ", "tempDir" >>

\* `gitleaks detect --source=./${tempDir} --report-path=${tempDir}/leaks.json
\* --no-banner --exit-code=0`
GitleaksCommand ==
    << "gitleaks", " ", "detect", " ", "--source=./tempDir", " ",
       "--report-path=tempDir/leaks.json", " ", "--no-banner", " ",
       "--exit-code=0" >>

\* `rm -rf ${tempDir}`
RmCommand == << "rm", " ", "-rf", " ", "tempDir" >>

RECURSIVE SplitOn(_, _)
\* The stretches of the text between the pieces that are separators.
SplitOn(s, seps) ==
    IF \A i \in DOMAIN s : s[i] \notin seps THEN << s >>
    ELSE LET i == CHOOSE i \in DOMAIN s :
                      s[i] \in seps /\ \A h \in 1 .. (i - 1) : s[h] \notin seps
         IN  << SubSeq(s, 1, i - 1) >> \o SplitOn(SubSeq(s, i + 1, Len(s)), seps)

NotEmpty(x) == x # << >>

\* The words the shell splits one command into.
Words(command) == SelectSeq(SplitOn(command, Blanks), NotEmpty)

\* execSync(line) runs /bin/sh -c line: the shell starts one process for
\* each command of the line, with the command's words for its arguments,
\* the first one naming the program.
Sh(line) ==
    LET commands == SplitOn(line, Operators)
    IN  SelectSeq([i \in DOMAIN commands |-> Words(commands[i])], NotEmpty)

\* The processes as a set.
Processes(line) == {Sh(line)[i] : i \in DOMAIN Sh(line)}

\* The message of the Error execSync throws: 'Command failed: ' and the
\* command line, followed by what the command wrote to stderr.
ExecMessage(command) == << "Command failed: " >> \o command

\* The message of the SyntaxError JSON.parse throws.
JsonMessage == << "Unexpected token in JSON" >>

\* The text shows the token.
Mentions(text, token) == token # Null /\ Includes(text, << token >>)

\* The sinks that have shown the token once the text is written to sinks.
Written(shown, sinks, text, token) ==
    IF Mentions(text, token) THEN shown \cup sinks ELSE shown

\* ['AGPL', 'GPL', 'SSPL'].some(bad => lic.Name.includes(bad))
IsViral(lic) ==
    \E k \in 1 .. Len(ViralPatterns) : Includes(lic.Name, ViralPatterns[k])

\* Faulty variant: HIGH counted as CRITICAL.
IsCriticalHigh(vuln) == vuln.Severity \in {"CRITICAL", "HIGH"}

\* vuln.Severity === 'CRITICAL'
IsCritical(vuln) == vuln.Severity = "CRITICAL"

RECURSIVE PushViral(_, _)
\* target.Licenses.forEach(lic => { if (...) viralLicenses.push(...) })
PushViral(licenses, acc) ==
    IF licenses = << >> THEN acc
    ELSE PushViral(Tail(licenses),
                   IF IsViral(Head(licenses)) THEN Append(acc, Head(licenses)) ELSE acc)

RECURSIVE PushCritical(_, _)
\* target.Vulnerabilities.forEach(vuln => { if (...) criticalVulns.push(vuln) })
PushCritical(vulns, acc) ==
    IF vulns = << >> THEN acc
    ELSE PushCritical(Tail(vulns),
                      IF IsCritical(Head(vulns)) THEN Append(acc, Head(vulns)) ELSE acc)

\* The body of scanResults.Results.forEach(target => ...): the two lists
\* after one target.
VisitTarget(target, lists) ==
    [viral |-> IF target.Licenses = Absent THEN lists.viral
               ELSE PushViral(target.Licenses[1], lists.viral),
     critical |-> IF target.Vulnerabilities = Absent THEN lists.critical
                  ELSE PushCritical(target.Vulnerabilities[1], lists.critical)]

\* Faulty variant: only Results[0] is inspected.
VisitFirstOnly(results, lists) ==
    IF results = << >> THEN lists ELSE VisitTarget(Head(results), lists)

RECURSIVE VisitTargets(_, _)
\* scanResults.Results.forEach(...)
VisitTargets(results, lists) ==
    IF results = << >> THEN lists
    ELSE VisitTargets(Tail(results), VisitTarget(Head(results), lists))

\* let viralLicenses = []; let criticalVulns = []; if (scanResults.Results) ...
CollectFindings(report) ==
    IF report.Results = Absent THEN [viral |-> << >>, critical |-> << >>]
    ELSE VisitTargets(report.Results[1], [viral |-> << >>, critical |-> << >>])

\* v1 has no secret scanner and grades on the Trivy findings alone.
HasSecretStage(v) == v # "v1"

\* Faulty variant: the CRITICAL test comes first.
GradeRuleCriticalFirst(v, viral, critical, leaks) ==
    IF Len(critical) > 0 THEN "C"
    ELSE IF Len(viral) > 0 \/ (HasSecretStage(v) /\ Len(leaks) > 0) THEN "F"
    ELSE "A"

\* Faulty variant: one CRITICAL vulnerability is tolerated.
GradeRuleTwoCriticals(v, viral, critical, leaks) ==
    IF Len(viral) > 0 \/ (HasSecretStage(v) /\ Len(leaks) > 0) THEN "F"
    ELSE IF Len(critical) > 1 THEN "C"
    ELSE "A"

\* let grade = 'A';
\* if (viralLicenses.length > 0 || gitleaksResults.length > 0) grade = 'F';
\* else if (criticalVulns.length > 0) grade = 'C';
GradeRule(v, viral, critical, leaks) ==
    IF Len(viral) > 0 \/ (HasSecretStage(v) /\ Len(leaks) > 0) THEN "F"
    ELSE IF Len(critical) > 0 THEN "C"
    ELSE "A"


\* ------------------------------------------------------ pipeline by version
\* v6 and v9 run the pipeline as the graphile-worker task scan_repo.
Queued(v) == v \in {"v6", "v9"}

\* v9 adds stage A2, the SBOM generation.
HasSbomStage(v) == v = "v9"

\* Faulty variant: the Trivy call sits directly in the outer try.
TrivyNeverCaught(v) == FALSE

\* From v2 on the Trivy call has a try/catch of its own.
TrivyCaught(v) == v # "v1"

\* From v2 on a certificate is rendered and uploaded.
HasCertificate(v) == v # "v1"

\* Only v2 reads the error member of the upload's result.
ChecksUpload(v) == v = "v2"

\* v1 and v2: const status = (grade === 'F') ? "FAILED" : "COMPLETED"
FailedForF(v) == v \in {"v1", "v2"}

\* v1 posts the result to the Make.com webhook after the database update.
CallsWebhook(v) == v = "v1"

\* v1's catch writes status only; later ones add last_error: err.message.
RecordsLastError(v) == v # "v1"

\* Faulty variant: the catch swallows the exception.
RethrowsNever(v) == FALSE

\* scan_repo ends its catch with throw err.
Rethrows(v) == Queued(v)

\* v9 reports caught exceptions with Sentry.captureException.
HasSentry(v) == v = "v9"

\* console.log / console.error of e.message, and Sentry.captureException(e)
\* where the iteration has it.
ErrorSinks(v) == {"log"} \cup (IF HasSentry(v) THEN {"report"} ELSE {})

Stages == {"trivy", "sbom", "gitleaks"}
StagesOf(v) ==
    {"trivy"} \cup (IF HasSbomStage(v) THEN {"sbom"} ELSE {})
              \cup (IF HasSecretStage(v) THEN {"gitleaks"} ELSE {})

\* The command lines the stages run when every command returns.
StageLines(stages, url) ==
    (IF "trivy" \in stages THEN {TrivyCommand(url)} ELSE {})
        \cup (IF "sbom" \in stages THEN {SbomCommand(url)} ELSE {})
        \cup (IF "gitleaks" \in stages
              THEN {CloneCommand(url), GitleaksCommand, RmCommand} ELSE {})

\* concurrency: 2
Concurrency == 2

\* const fileName = `${scanId}.pdf`
PdfKey(j) == << "pdf", j >>

\* Faulty variant: one file name for every job.
SbomKeyShared(j) == << "sbom", 0 >>

\* const sbomPath = `sbom_${scanId}.json`
SbomKey(j) == << "sbom", j >>

\* const tempDir = `temp_${scanId}`
TempDir(j) == << "temp", j >>

\* The bucket before the first upload.
NoObjects == [k \in {} |-> Null]

\* bucket.upload(key, body, { upsert: true }): the object of that name is
\* replaced, or created where there is none. writes counts the uploads the
\* object has taken.
Put(store, key, body) ==
    [k \in DOMAIN store \cup {key} |->
        IF k = key
        THEN [body |-> body,
              writes |-> IF key \in DOMAIN store THEN store[key].writes + 1 ELSE 1]
        ELSE store[k]]

\* `${cleanSupabaseUrl}/storage/v1/object/public/audits/${fileName}`
PublicUrl(key) == << "audits", key >>

\* ------------------------------------------------------------------- state
VARIABLES
    version,          \* the deployed iteration
    connectionString, \* process.env.DATABASE_URL is set
    response,         \* HTTP status POST /scan answered with, 0 before it has
    rec,              \* table 'scans': job id -> row
    queue,            \* graphile-worker's job table: job id -> state, attempts
    pc,               \* where the pipeline execution of a job stands
    scanResults,      \* let scanResults = {}
    gitleaksResults,  \* let gitleaksResults = []
    viralLicenses,    \* let viralLicenses = []
    criticalVulns,    \* let criticalVulns = []
    grade,            \* let grade = 'A'
    sbomUrl,          \* let sbomUrl = null
    pdfBuffer,        \* const pdfBuffer: what the certificate shows
    storage,          \* bucket 'audits': object name -> object
    fs,               \* files and directories on the worker's local disk
    att,              \* history of the current attempt of a job
    threw,            \* history: an exception reached the outer catch of the job
    active,           \* history: executions of the pipeline of a job in progress
    args,             \* repo and token the pipeline of a job is called with
    exposed,          \* history: the sinks that have shown the token of a job
    stalled,          \* the jobs whose execSync waits for a command for ever
    authRepo,         \* let authRepo = repo
    spawned           \* history: the processes the attempt's execSync calls started

locals == << scanResults, gitleaksResults, viralLicenses, criticalVulns, grade,
             sbomUrl, pdfBuffer, authRepo >>
vars == << version, connectionString, response, rec, queue, pc, scanResults,
           gitleaksResults, viralLicenses, criticalVulns, grade, sbomUrl,
           pdfBuffer, storage, fs, att, threw, active, args, exposed,
           stalled, authRepo, spawned >>

\* A row of table 'scans' before the insert. commit stands for the commit
\* identifier of the scanned state: the insert sets none and no update of
\* any iteration names such a column.
NoRow ==
    [status |-> "ABSENT", repo_url |-> NoUrl, risk_grade |-> Null,
     pdf_url |-> NoUrl, sbom_url |-> NoUrl, last_error |-> Null,
     commit |-> Null]

NoArgs == [repo |-> NoUrl, token |-> Null]

\* message is err.message of the exception on its way to the outer catch;
\* refused tells that git clone found temp_<scanId> already there.
NoAttempt ==
    [starts |-> [s \in Stages |-> 0], failed |-> {}, cause |-> Null,
     message |-> << >>, publish |-> Null, db |-> FALSE, refused |-> FALSE]

\* The state after the process has started, with rows, queue entries and
\* objects for the given job ids still to come.
InitOver(jobs) ==
    /\ version \in Versions
    /\ connectionString \in (IF Queued(version) THEN BOOLEAN ELSE {FALSE})
    /\ response = [j \in jobs |-> 0]
    /\ active = [j \in jobs |-> 0]
    /\ rec = [j \in jobs |-> NoRow]
    /\ queue = [j \in jobs |-> [state |-> "none", attempts |-> 0]]
    /\ pc = [j \in jobs |-> "none"]
    /\ scanResults = [j \in jobs |-> EmptyObject]
    /\ gitleaksResults = [j \in jobs |-> << >>]
    /\ viralLicenses = [j \in jobs |-> << >>]
    /\ criticalVulns = [j \in jobs |-> << >>]
    /\ grade = [j \in jobs |-> "A"]
    /\ sbomUrl = [j \in jobs |-> NoUrl]
    /\ pdfBuffer = [j \in jobs |-> Null]
    /\ storage = NoObjects
    /\ fs = {}
    /\ att = [j \in jobs |-> NoAttempt]
    /\ threw = [j \in jobs |-> FALSE]
    /\ args = [j \in jobs |-> NoArgs]
    /\ exposed = [j \in jobs |-> {}]
    /\ stalled = {}
    /\ authRepo = [j \in jobs |-> NoUrl]
    /\ spawned = [j \in jobs |-> {}]

Init == InitOver(Jobs)

\* Positions in the synchronous stretches of the pipeline: execSync blocks
\* the event loop, so from the start of the function, or from an await that
\* resumed, to the next await nothing else of the process runs.
Synchronous == {"trivy", "sbom", "gitleaks", "detect", "grading"}

\* The thread is job j's to run on: no other pipeline is in the middle of a
\* synchronous stretch, and the command j's own execSync waits for, if any,
\* returns.
Thread(j) ==
    /\ j \notin stalled
    /\ \A k \in DOMAIN pc \ {j} : pc[k] \notin Synchronous

\* The declarations at the head of runBackgroundScan / scan_repo.
EnterPipeline(j) ==
    /\ pc' = [pc EXCEPT ![j] = "trivy"]
    /\ scanResults' = [scanResults EXCEPT ![j] = EmptyObject]
    /\ gitleaksResults' = [gitleaksResults EXCEPT ![j] = << >>]
    /\ viralLicenses' = [viralLicenses EXCEPT ![j] = << >>]
    /\ criticalVulns' = [criticalVulns EXCEPT ![j] = << >>]
    /\ grade' = [grade EXCEPT ![j] = "A"]
    /\ sbomUrl' = [sbomUrl EXCEPT ![j] = NoUrl]
    /\ pdfBuffer' = [pdfBuffer EXCEPT ![j] = Null]
    /\ authRepo' = [authRepo EXCEPT ![j] = NoUrl]
    /\ spawned' = [spawned EXCEPT ![j] = {}]
    /\ att' = [att EXCEPT ![j] = NoAttempt]
    /\ active' = [active EXCEPT ![j] = @ + 1]

\* The handler of POST /scan holds the response and waits for quickAddJob.
Pending == 1

\* app.post('/scan'): answer 400 without a repo; insert the row and answer
\* 500 if the insert fails; then answer and call runBackgroundScan without
\* awaiting it (v1, v2, v4), or enqueue scan_repo with await quickAddJob and
\* answer (v6, v9). The job is in the queue's table before the promise of
\* quickAddJob settles: the handler goes on in the same turn of the event
\* loop as far as any other event can tell (prompt), or behind other events.
Post(j, prompt) ==
    /\ Thread(j)
    /\ rec[j].status = "ABSENT"
    /\ \A k \in DOMAIN rec : k < j => rec[k].status # "ABSENT"
    /\ \/ \* if (!repo) return res.status(400).send('No repo provided')
          /\ response' = [response EXCEPT ![j] = 400]
          /\ UNCHANGED << rec, queue, pc, locals, att, active, args, exposed,
                          spawned >>
       \/ \* the insert resolves to { error } or throws
          /\ response' = [response EXCEPT ![j] = 500]
          /\ UNCHANGED << rec, queue, pc, locals, att, active, args, exposed,
                          spawned >>
       \/ \E body \in Requests :
              /\ rec' = [rec EXCEPT ![j] =
                             [NoRow EXCEPT !.repo_url = body.repo,
                                           !.status = IF Queued(version)
                                                      THEN "QUEUED" ELSE "RUNNING"]]
              /\ IF ~Queued(version)
                 THEN \* res.json(...); runBackgroundScan(repo, token, scanId)
                      /\ response' = [response EXCEPT ![j] = 200]
                      /\ args' = [args EXCEPT ![j] = body]
                      /\ EnterPipeline(j)
                      /\ UNCHANGED << queue, exposed >>
                 ELSE /\ \/ \* await quickAddJob({ connectionString },
                            \* "scan_repo", { repo, token, scanId, userId })
                            /\ connectionString
                            /\ queue' = [queue EXCEPT ![j] =
                                             [state |-> "ready", attempts |-> 0]]
                            /\ args' = [args EXCEPT ![j] = body]
                            /\ exposed' = [exposed EXCEPT ![j] =
                                   Written(@, {"queue"}, << body.token >>, body.token)]
                            /\ response' = [response EXCEPT ![j] =
                                                IF prompt THEN 200 ELSE Pending]
                         \/ \* quickAddJob throws
                            /\ connectionString
                            /\ response' = [response EXCEPT ![j] = 500]
                            /\ UNCHANGED << queue, args, exposed >>
                         \/ \* else: res.status(500), "Server missing DATABASE_URL"
                            /\ ~connectionString
                            /\ response' = [response EXCEPT ![j] = 500]
                            /\ UNCHANGED << queue, args, exposed >>
                      /\ UNCHANGED << pc, locals, att, active, spawned >>
    /\ UNCHANGED << version, connectionString, storage, fs, threw, stalled >>

PostScan(j) == \E prompt \in BOOLEAN : Post(j, prompt)

\* res.json({ message: "Scan Queued", scan_id: scanRecord.id, status: "QUEUED" })
\* behind the await of quickAddJob.
Acknowledge(j) ==
    /\ Thread(j)
    /\ response[j] = Pending
    /\ response' = [response EXCEPT ![j] = 200]
    /\ UNCHANGED << version, connectionString, rec, queue, pc, locals, storage,
                    fs, att, threw, active, args, exposed, stalled, spawned >>

\* Faulty variant: a job a worker holds can be given to another one.
ClaimableWhileLocked(entry) == entry.state \in {"ready", "locked"}

\* graphile-worker hands out a job that no worker holds.
Claimable(entry) == entry.state = "ready"

\* startWorker: run({ connectionString, concurrency: 2, taskList }). A free
\* worker of graphile-worker's pool locks a ready job and calls
\* taskList.scan_repo.
WorkerTake(j) ==
    /\ Thread(j)
    /\ connectionString
    /\ Claimable(queue[j])
    /\ Cardinality({k \in DOMAIN queue : queue[k].state = "locked"}) < Concurrency
    /\ queue' = [queue EXCEPT ![j] =
                     [state |-> "locked", attempts |-> queue[j].attempts + 1]]
    /\ EnterPipeline(j)
    /\ UNCHANGED << version, connectionString, response, rec, storage, fs,
                    threw, args, exposed, stalled >>

AfterTrivy(v) ==
    IF HasSbomStage(v) THEN "sbom"
    ELSE IF HasSecretStage(v) THEN "gitleaks" ELSE "grading"

\* The processes the execSync calls of the lines start are added to those
\* of the attempt.
Exec(j, lines) ==
    spawned' = [spawned EXCEPT ![j] = @ \cup UNION {Processes(l) : l \in lines}]

Started(a, stage) == [a EXCEPT !.starts[stage] = @ + 1]
Failed(a, stage) == [a EXCEPT !.failed = @ \cup {stage}]

\* let authRepo = repo; if (token && ...) authRepo = ...;
\* A. execSync(`trivy repo ...`) returns and JSON.parse(output) yields a report.
TrivyOk(j) ==
    /\ Thread(j)
    /\ pc[j] = "trivy"
    /\ authRepo' = [authRepo EXCEPT ![j] = AuthRepo(args[j].repo, args[j].token)]
    /\ Exec(j, {TrivyCommand(authRepo'[j])})
    /\ \E report \in SampleReports :
           scanResults' = [scanResults EXCEPT ![j] = report]
    /\ att' = [att EXCEPT ![j] = Started(@, "trivy")]
    /\ pc' = [pc EXCEPT ![j] = AfterTrivy(version)]
    /\ UNCHANGED << version, connectionString, response, active, rec, queue,
                    gitleaksResults, viralLicenses, criticalVulns, grade,
                    sbomUrl, pdfBuffer, storage, fs, threw, args, exposed,
                    stalled >>

\* let authRepo = repo; if (token && ...) authRepo = ...;
\* A. execSync throws (timeout, non-zero exit) or JSON.parse throws. The
\* stage's catch logs e.message; v1 has none and the outer catch is next.
TrivyFails(j) ==
    /\ Thread(j)
    /\ pc[j] = "trivy"
    /\ authRepo' = [authRepo EXCEPT ![j] = AuthRepo(args[j].repo, args[j].token)]
    /\ Exec(j, {TrivyCommand(authRepo'[j])})
    /\ \E message \in {ExecMessage(TrivyCommand(authRepo'[j])), JsonMessage} :
           IF TrivyCaught(version)
           THEN \* console.log("   Trivy warning:", e.message)
                /\ att' = [att EXCEPT ![j] = Failed(Started(@, "trivy"), "trivy")]
                /\ pc' = [pc EXCEPT ![j] = AfterTrivy(version)]
                /\ exposed' = [exposed EXCEPT ![j] =
                                   Written(@, {"log"}, message, args[j].token)]
           ELSE /\ att' = [att EXCEPT ![j] =
                               [Failed(Started(@, "trivy"), "trivy")
                                   EXCEPT !.cause = "trivy", !.message = message]]
                /\ pc' = [pc EXCEPT ![j] = "catch"]
                /\ UNCHANGED exposed
    /\ UNCHANGED << version, connectionString, response, active, rec, queue,
                    scanResults, gitleaksResults, viralLicenses, criticalVulns,
                    grade, sbomUrl, pdfBuffer, storage, fs, threw, args,
                    stalled >>

\* A2. execSync(`trivy repo ... --format cyclonedx --output ${sbomPath}`),
\* then fs.existsSync(sbomPath).
Sbom(j) ==
    /\ Thread(j)
    /\ pc[j] = "sbom"
    /\ Exec(j, {SbomCommand(authRepo[j])})
    /\ \/ \* the command throws, before or after it has made the file:
          \* console.log(e.message), captureException(e)
          /\ att' = [att EXCEPT ![j] = Failed(Started(@, "sbom"), "sbom")]
          /\ pc' = [pc EXCEPT ![j] = "gitleaks"]
          /\ exposed' = [exposed EXCEPT ![j] =
                 Written(@, ErrorSinks(version),
                         ExecMessage(SbomCommand(authRepo[j])),
                         args[j].token)]
          /\ \E wrote \in BOOLEAN :
                 fs' = IF wrote THEN fs \cup {SbomKey(j)} ELSE fs
       \/ \* the command returns and wrote no file
          /\ att' = [att EXCEPT ![j] = Started(@, "sbom")]
          /\ pc' = [pc EXCEPT ![j] = "gitleaks"]
          /\ UNCHANGED << fs, exposed >>
       \/ \* the file is there and is read: the upload is awaited
          /\ att' = [att EXCEPT ![j] = Started(@, "sbom")]
          /\ pc' = [pc EXCEPT ![j] = "sbom_upload"]
          /\ fs' = fs \cup {SbomKey(j)}
          /\ UNCHANGED exposed
    /\ UNCHANGED << version, connectionString, response, active, rec, queue,
                    locals, storage, threw, args, stalled >>

\* Faulty variant: every attempt uploads under a name of its own.
SbomObjectPerAttempt(j) == << "sbom", j, queue[j].attempts >>

\* .upload(sbomPath, sbomBuffer, ...): the object is named as the file.
SbomObject(j) == SbomKey(j)

\* await supabase.storage.from('audits').upload(sbomPath, ...); sbomUrl = ...;
\* fs.unlinkSync(sbomPath)
SbomUpload(j) ==
    /\ Thread(j)
    /\ pc[j] = "sbom_upload"
    /\ \/ \* stored
          /\ storage' = Put(storage, SbomObject(j), "sbom")
          /\ sbomUrl' = [sbomUrl EXCEPT ![j] = PublicUrl(SbomKey(j))]
          /\ fs' = fs \ {SbomKey(j)}
          /\ UNCHANGED att
       \/ \* the call resolves to { error }: the result is not read
          /\ sbomUrl' = [sbomUrl EXCEPT ![j] = PublicUrl(SbomKey(j))]
          /\ fs' = fs \ {SbomKey(j)}
          /\ att' = [att EXCEPT ![j] = Failed(@, "sbom")]
          /\ UNCHANGED storage
       \/ \* the call throws: caught by the stage's catch
          /\ att' = [att EXCEPT ![j] = Failed(@, "sbom")]
          /\ UNCHANGED << storage, sbomUrl, fs >>
    /\ pc' = [pc EXCEPT ![j] = "gitleaks"]
    /\ UNCHANGED << version, connectionString, response, active, rec, queue,
                    scanResults, gitleaksResults, viralLicenses, criticalVulns,
                    grade, pdfBuffer, threw, args, exposed, stalled,
                    authRepo, spawned >>

\* The positions whose command runs under a limit of time: the Trivy scan
\* is given --timeout 30m and the SBOM run has Trivy's default limit. git
\* clone and gitleaks detect are given none, and no execSync call passes
\* the timeout option.
Limited == {"trivy", "sbom"}

\* The positions at which execSync waits for a command.
Commands == {"trivy", "sbom", "gitleaks", "detect"}

\* The command job j waits for never returns (the remote end stops
\* answering, the scanner loops): execSync never returns either.
Stall(j) ==
    /\ Thread(j)
    /\ pc[j] \in Commands \ Limited
    /\ stalled' = stalled \cup {j}
    /\ UNCHANGED << version, connectionString, response, rec, queue, pc, locals,
                    storage, fs, att, threw, active, args, exposed, spawned >>

\* Faulty variant: the directory stays.
RmRfKeeps(files, dir) == files

\* execSync(`rm -rf ${tempDir}`)
RmRf(files, dir) == files \ {dir}

\* B. execSync(`git clone --depth 1 ${authRepo} ${tempDir}`), without
\* --depth 1 before v6: the clone lands in temp_<scanId>, or git fails
\* (the repository cannot be read), or git refuses because temp_<scanId> is
\* already there and not empty; the stage's catch logs and runs rm -rf.
Clone(j) ==
    /\ Thread(j)
    /\ pc[j] = "gitleaks"
    /\ \/ /\ TempDir(j) \notin fs
          /\ Exec(j, {CloneCommand(authRepo[j])})
          /\ fs' = fs \cup {TempDir(j)}
          /\ att' = [att EXCEPT ![j] = Started(@, "gitleaks")]
          /\ pc' = [pc EXCEPT ![j] = "detect"]
          /\ UNCHANGED exposed
       \/ \* console.error(e.message), captureException(e), rm -rf
          /\ Exec(j, {CloneCommand(authRepo[j]), RmCommand})
          /\ fs' = RmRf(fs, TempDir(j))
          /\ att' = [att EXCEPT ![j] =
                         [Failed(Started(@, "gitleaks"), "gitleaks")
                             EXCEPT !.refused = TempDir(j) \in fs]]
          /\ pc' = [pc EXCEPT ![j] = "grading"]
          /\ exposed' = [exposed EXCEPT ![j] =
                 Written(@, ErrorSinks(version),
                         ExecMessage(CloneCommand(authRepo[j])),
                         args[j].token)]
    /\ UNCHANGED << version, connectionString, response, active, rec, queue,
                    locals, storage, threw, args, stalled >>

\* B. gitleaks detect, read leaks.json if it exists, rm -rf; the stage's
\* catch logs and runs rm -rf. A missing leaks.json leaves the default [],
\* as a report of [] does.
Gitleaks(j) ==
    /\ Thread(j)
    /\ pc[j] = "detect"
    /\ \/ \* gitleaks throws, or JSON.parse(file) throws
          /\ att' = [att EXCEPT ![j] = Failed(@, "gitleaks")]
          /\ UNCHANGED gitleaksResults
       \/ \E leaks \in SampleLeaks :
              /\ gitleaksResults' = [gitleaksResults EXCEPT ![j] = leaks]
              /\ UNCHANGED att
    /\ Exec(j, {GitleaksCommand, RmCommand})
    /\ fs' = RmRf(fs, TempDir(j))
    /\ pc' = [pc EXCEPT ![j] = "grading"]
    /\ UNCHANGED << version, connectionString, response, active, rec, queue,
                    scanResults, viralLicenses, criticalVulns, grade, sbomUrl,
                    pdfBuffer, storage, threw, args, exposed, stalled,
                    authRepo >>

\* C. GRADING
Grading(j) ==
    /\ Thread(j)
    /\ pc[j] = "grading"
    /\ LET lists == CollectFindings(scanResults[j])
       IN  /\ viralLicenses' = [viralLicenses EXCEPT ![j] = lists.viral]
           /\ criticalVulns' = [criticalVulns EXCEPT ![j] = lists.critical]
           /\ grade' = [grade EXCEPT ![j] =
                            GradeRule(version, lists.viral, lists.critical,
                                      gitleaksResults[j])]
    /\ pc' = [pc EXCEPT ![j] = IF HasCertificate(version) THEN "pdf" ELSE "update"]
    /\ UNCHANGED << version, connectionString, response, active, rec, queue,
                    scanResults, gitleaksResults, sbomUrl, pdfBuffer, storage,
                    fs, att, threw, args, exposed, stalled,
                    authRepo, spawned >>

\* generateCertificate: const grade = scanData.grade || 'A'
RenderedGrade(g) == IF g = Null THEN "A" ELSE g

\* generateCertificate(scanData, scanId, repoUrl): the document shows the
\* grade and, under 'Repository:', repoUrl.
Certificate(g, repoUrl) == [grade |-> RenderedGrade(g), repo |-> repoUrl]

\* Faulty variant: the URL the scanners were given goes to the certificate.
CertificateRepoAuth(repo, token) == AuthRepo(repo, token)

\* The third argument of generateCertificate(generationData, scanId, repo).
CertificateRepo(repo, token) == repo

\* D. const pdfBuffer = await generateCertificate(generationData, scanId, repo)
Pdf(j) ==
    /\ Thread(j)
    /\ pc[j] = "pdf"
    /\ \/ /\ pdfBuffer' = [pdfBuffer EXCEPT ![j] =
                   Certificate(grade[j], CertificateRepo(args[j].repo, args[j].token))]
          /\ pc' = [pc EXCEPT ![j] = "upload"]
          /\ UNCHANGED att
       \/ \* the promise rejects
          /\ att' = [att EXCEPT ![j].cause = "pdf", ![j].message = << "pdf" >>]
          /\ pc' = [pc EXCEPT ![j] = "catch"]
          /\ UNCHANGED pdfBuffer
    /\ UNCHANGED << version, connectionString, response, active, rec, queue,
                    scanResults, gitleaksResults, viralLicenses, criticalVulns,
                    grade, sbomUrl, storage, fs, threw, args, exposed,
                    stalled, authRepo, spawned >>

\* await supabase.storage.from('audits').upload(fileName, pdfBuffer, ...)
Upload(j) ==
    /\ Thread(j)
    /\ pc[j] = "upload"
    /\ \/ \* stored
          /\ storage' = Put(storage, PdfKey(j), pdfBuffer[j])
          /\ att' = [att EXCEPT ![j].publish = "ok"]
          /\ pc' = [pc EXCEPT ![j] = "update"]
       \/ \* the call resolves to { error }
          /\ UNCHANGED storage
          /\ IF ChecksUpload(version)
             THEN /\ att' = [att EXCEPT ![j].publish = "error",
                                         ![j].cause = "upload",
                                         ![j].message = << "upload" >>]
                  /\ pc' = [pc EXCEPT ![j] = "catch"]
             ELSE /\ att' = [att EXCEPT ![j].publish = "error"]
                  /\ pc' = [pc EXCEPT ![j] = "update"]
       \/ \* the call throws
          /\ UNCHANGED storage
          /\ att' = [att EXCEPT ![j].publish = "threw", ![j].cause = "upload",
                                  ![j].message = << "upload" >>]
          /\ pc' = [pc EXCEPT ![j] = "catch"]
    /\ UNCHANGED << version, connectionString, response, active, rec, queue,
                    locals, fs, threw, args, exposed, stalled, spawned >>

\* Faulty variant: the update has no filter and applies to every row.
MatchedAll(j) == {k \in DOMAIN rec : rec[k].status # "ABSENT"}

\* .eq('id', scanId): the rows an update of job j's pipeline applies to.
Matched(j) == {k \in DOMAIN rec : rec[k].status # "ABSENT" /\ k = j}

FinalStatus(v, g) == IF FailedForF(v) /\ g = "F" THEN "FAILED" ELSE "COMPLETED"

\* E. await supabase.from('scans').update({ status, risk_grade, pdf_url,
\* sbom_url, completed_at }).eq('id', scanId)
Update(j) ==
    /\ Thread(j)
    /\ pc[j] = "update"
    /\ \/ /\ rec' = [k \in DOMAIN rec |->
                     IF k \in Matched(j)
                     THEN [rec[k] EXCEPT
                              !.status = FinalStatus(version, grade[j]),
                              !.risk_grade = grade[j],
                              !.pdf_url = IF HasCertificate(version)
                                          THEN PublicUrl(PdfKey(j)) ELSE @,
                              !.sbom_url = IF HasSbomStage(version)
                                           THEN sbomUrl[j] ELSE @]
                     ELSE rec[k]]
          /\ UNCHANGED att
       \/ \* the call resolves to { error }: the row is not changed
          /\ att' = [att EXCEPT ![j].db = TRUE]
          /\ UNCHANGED rec
    /\ pc' = [pc EXCEPT ![j] = IF CallsWebhook(version) THEN "webhook" ELSE "returned"]
    /\ active' = [active EXCEPT ![j] = IF CallsWebhook(version) THEN @ ELSE @ - 1]
    /\ UNCHANGED << version, connectionString, response, queue, locals, storage,
                    fs, threw, args, exposed, stalled, spawned >>

\* F. await fetch(MAKE_CALLBACK_URL, ...)
Webhook(j) ==
    /\ Thread(j)
    /\ pc[j] = "webhook"
    /\ \/ /\ pc' = [pc EXCEPT ![j] = "returned"]
          /\ active' = [active EXCEPT ![j] = @ - 1]
          /\ UNCHANGED att
       \/ \* fetch rejects
          /\ att' = [att EXCEPT ![j].cause = "webhook", ![j].message = << "webhook" >>]
          /\ pc' = [pc EXCEPT ![j] = "catch"]
          /\ UNCHANGED active
    /\ UNCHANGED << version, connectionString, response, rec, queue, locals,
                    storage, fs, threw, args, exposed, stalled, spawned >>

\* catch (err) { console.error(err.message); Sentry.captureException(err);
\* await supabase.from('scans').update({ status: 'ERROR',
\* last_error: err.message }).eq('id', scanId); throw err; }
\* The row's last_error is kept as the cause of err; exposed tells whether
\* err.message, written there, shows the token.
Catch(j) ==
    /\ Thread(j)
    /\ pc[j] = "catch"
    /\ threw' = [threw EXCEPT ![j] = TRUE]
    /\ \/ /\ rec' = [k \in DOMAIN rec |->
                     IF k \in Matched(j)
                     THEN [rec[k] EXCEPT
                              !.status = "ERROR",
                              !.last_error = IF RecordsLastError(version)
                                             THEN att[j].cause ELSE @]
                     ELSE rec[k]]
          /\ exposed' = [exposed EXCEPT ![j] =
                 Written(@, ErrorSinks(version)
                               \cup (IF RecordsLastError(version)
                                     THEN {"record"} ELSE {}),
                         att[j].message, args[j].token)]
          /\ UNCHANGED att
       \/ \* the call resolves to { error }: the row is not changed
          /\ att' = [att EXCEPT ![j].db = TRUE]
          /\ exposed' = [exposed EXCEPT ![j] =
                 Written(@, ErrorSinks(version), att[j].message, args[j].token)]
          /\ UNCHANGED rec
    /\ pc' = [pc EXCEPT ![j] = IF Rethrows(version) THEN "thrown" ELSE "returned"]
    /\ active' = [active EXCEPT ![j] = @ - 1]
    /\ UNCHANGED << version, connectionString, response, queue, locals, storage,
                    fs, args, stalled, spawned >>

\* Faulty variant: a failed job is released again whatever its attempts.
ReleasedAlways(attempts) == "ready"

\* graphile-worker: a failed job is released for another attempt while its
\* attempts are below max_attempts (run() and quickAddJob set none, so the
\* library's default holds, for which MaxAttempts stands); then it stays
\* in the table and no worker takes it again.
Released(attempts) == IF attempts < MaxAttempts THEN "ready" ELSE "dead"

\* graphile-worker: the task's promise resolved, the job is deleted.
QueueComplete(j) ==
    /\ Thread(j)
    /\ Queued(version)
    /\ pc[j] = "returned"
    /\ queue' = [queue EXCEPT ![j].state = "done"]
    /\ pc' = [pc EXCEPT ![j] = "none"]
    /\ UNCHANGED << version, connectionString, response, active, rec, locals,
                    storage, fs, att, threw, args, exposed, stalled, spawned >>

\* graphile-worker: the task's promise rejected, the job is released for a
\* later attempt until its attempts are used up.
QueueFail(j) ==
    /\ Thread(j)
    /\ pc[j] = "thrown"
    /\ queue' = [queue EXCEPT ![j].state = Released(queue[j].attempts)]
    /\ pc' = [pc EXCEPT ![j] = "none"]
    /\ UNCHANGED << version, connectionString, response, active, rec, locals,
                    storage, fs, att, threw, args, exposed, stalled, spawned >>

Next ==
    \E j \in Jobs :
        \/ PostScan(j)
        \/ Acknowledge(j)
        \/ WorkerTake(j)
        \/ TrivyOk(j)
        \/ TrivyFails(j)
        \/ Sbom(j)
        \/ SbomUpload(j)
        \/ Clone(j)
        \/ Gitleaks(j)
        \/ Stall(j)
        \/ Grading(j)
        \/ Pdf(j)
        \/ Upload(j)
        \/ Update(j)
        \/ Webhook(j)
        \/ Catch(j)
        \/ QueueComplete(j)
        \/ QueueFail(j)

Spec == Init /\ [][Next]_vars


\* ------------------------------------------------ several jobs, turn by turn
\* The first synchronous stretch of job j, from the first statement of the
\* function to its first await, with every command returning. Where the
\* iteration has the SBOM stage that is the await of the inventory's upload,
\* with the file trivy wrote on the disk; elsewhere it is the await of
\* generateCertificate (of the update in v1), behind the other scanner
\* stages, whose directory is made and removed within the stretch, and the
\* grading.
\* The repositories do not change while the jobs run: one holds nothing to
\* report, the other a viral license.
ScanTurn(j) ==
    /\ Thread(j)
    /\ pc[j] = "trivy"
    /\ authRepo' = [authRepo EXCEPT ![j] = AuthRepo(args[j].repo, args[j].token)]
    /\ IF HasSbomStage(version)
       THEN /\ att' = [att EXCEPT ![j].starts =
                          [s \in Stages |-> IF s \in {"trivy", "sbom"} THEN 1 ELSE 0]]
            /\ Exec(j, StageLines({"trivy", "sbom"}, authRepo'[j]))
            /\ fs' = fs \cup {SbomKey(j)}
            /\ pc' = [pc EXCEPT ![j] = "sbom_upload"]
            /\ UNCHANGED grade
       ELSE /\ att' = [att EXCEPT ![j].starts =
                          [s \in Stages |-> IF s \in StagesOf(version) THEN 1 ELSE 0]]
            /\ Exec(j, StageLines(StagesOf(version), authRepo'[j]))
            /\ grade' = [grade EXCEPT ![j] =
                             IF rec[j].repo_url = ViralRepo THEN "F" ELSE "A"]
            /\ pc' = [pc EXCEPT ![j] = IF HasCertificate(version) THEN "pdf" ELSE "update"]
            /\ UNCHANGED fs
    /\ UNCHANGED << version, connectionString, response, active, rec, queue,
                    scanResults, gitleaksResults, viralLicenses, criticalVulns,
                    sbomUrl, pdfBuffer, storage, threw, args, exposed,
                    stalled >>

\* The second synchronous stretch of a job of an iteration with the SBOM
\* stage: the upload has stored the inventory, the file is unlinked, the
\* secret scan makes and removes its directory, the grade is computed and
\* generateCertificate is awaited.
SbomTurn(j) ==
    /\ Thread(j)
    /\ pc[j] = "sbom_upload"
    /\ storage' = Put(storage, SbomObject(j), "sbom")
    /\ sbomUrl' = [sbomUrl EXCEPT ![j] = PublicUrl(SbomKey(j))]
    /\ fs' = fs \ {SbomKey(j)}
    /\ att' = [att EXCEPT ![j].starts["gitleaks"] = 1]
    /\ Exec(j, StageLines({"gitleaks"}, authRepo[j]))
    /\ grade' = [grade EXCEPT ![j] = IF rec[j].repo_url = ViralRepo THEN "F" ELSE "A"]
    /\ pc' = [pc EXCEPT ![j] = "pdf"]
    /\ UNCHANGED << version, connectionString, response, active, rec, queue,
                    scanResults, gitleaksResults, viralLicenses, criticalVulns,
                    pdfBuffer, threw, args, exposed, stalled, authRepo >>

\* The awaits of job j from the certificate on, to the settlement of the
\* function's promise: the row is updated and the function returns, or an
\* exception reaches the outer catch, which writes ERROR and (scan_repo)
\* throws again. The store accepts the writes.
Settle(j) ==
    /\ Thread(j)
    /\ pc[j] \in {"pdf", "update"}
    /\ \/ /\ rec' = [k \in DOMAIN rec |->
                     IF k \in Matched(j)
                     THEN [rec[k] EXCEPT
                              !.status = FinalStatus(version, grade[j]),
                              !.risk_grade = grade[j],
                              !.pdf_url = IF HasCertificate(version)
                                          THEN PublicUrl(PdfKey(j)) ELSE @,
                              !.sbom_url = IF HasSbomStage(version)
                                           THEN sbomUrl[j] ELSE @]
                     ELSE rec[k]]
          /\ pc' = [pc EXCEPT ![j] = "returned"]
          /\ UNCHANGED << att, threw >>
       \/ /\ HasCertificate(version) \/ CallsWebhook(version)
          /\ att' = [att EXCEPT ![j].cause = "pdf", ![j].message = << "pdf" >>]
          /\ threw' = [threw EXCEPT ![j] = TRUE]
          /\ rec' = [k \in DOMAIN rec |->
                     IF k \in Matched(j)
                     THEN [rec[k] EXCEPT
                              !.status = "ERROR",
                              !.last_error = IF RecordsLastError(version)
                                             THEN "pdf" ELSE @]
                     ELSE rec[k]]
          /\ pc' = [pc EXCEPT ![j] = IF Rethrows(version) THEN "thrown" ELSE "returned"]
    /\ active' = [active EXCEPT ![j] = @ - 1]
    /\ UNCHANGED << version, connectionString, response, queue, locals, storage,
                    fs, args, exposed, stalled, spawned >>

\* The two iterations of src/scan.js: runBackgroundScan started by the
\* request (v4, as in v1 and v2) and scan_repo started by the queue (v9, as
\* in v6).
InitPool == InitOver(PoolJobs) /\ version \in {"v4", "v9"}

\* POST /scan, answered in the turn of the insert. The requests of one run
\* are all for the same repository: the first one chooses it.
PoolPost(j) ==
    /\ Post(j, TRUE)
    /\ \A k \in PoolJobs :
           rec'[k].status # "ABSENT" => rec'[k].repo_url = rec'[1].repo_url

PoolNext ==
    \E j \in PoolJobs :
        \/ PoolPost(j)
        \/ WorkerTake(j)
        \/ ScanTurn(j)
        \/ SbomTurn(j)
        \/ Settle(j)
        \/ QueueComplete(j)
        \/ QueueFail(j)

SpecPool == InitPool /\ [][PoolNext]_vars


\* ------------------------------------------------------- crash and restart
\* The process dies and is started again: every execution in progress is
\* gone with the memory it held and a handler that had not answered never
\* does; rows, objects, queue entries (args is the payload) and files stay.
Crash ==
    /\ \E j \in DOMAIN pc : pc[j] # "none"
    /\ pc' = [j \in DOMAIN pc |-> "none"]
    /\ active' = [j \in DOMAIN pc |-> 0]
    /\ scanResults' = [j \in DOMAIN pc |-> EmptyObject]
    /\ gitleaksResults' = [j \in DOMAIN pc |-> << >>]
    /\ viralLicenses' = [j \in DOMAIN pc |-> << >>]
    /\ criticalVulns' = [j \in DOMAIN pc |-> << >>]
    /\ grade' = [j \in DOMAIN pc |-> "A"]
    /\ sbomUrl' = [j \in DOMAIN pc |-> NoUrl]
    /\ pdfBuffer' = [j \in DOMAIN pc |-> Null]
    /\ authRepo' = [j \in DOMAIN pc |-> NoUrl]
    /\ spawned' = [j \in DOMAIN pc |-> {}]
    /\ att' = [j \in DOMAIN pc |-> NoAttempt]
    /\ stalled' = {}
    /\ response' = [j \in DOMAIN pc |->
                        IF response[j] = Pending THEN 0 ELSE response[j]]
    /\ UNCHANGED << version, connectionString, rec, queue, storage,
                    fs, threw, args, exposed >>

\* graphile-worker: a job whose lock is older than the lock's lifetime is
\* free again; the worker that held it is gone.
LockExpires(j) ==
    /\ queue[j].state = "locked"
    /\ pc[j] = "none"
    /\ queue' = [queue EXCEPT ![j].state = Released(queue[j].attempts)]
    /\ UNCHANGED << version, connectionString, response, active, rec, pc,
                    locals, storage, fs, att, threw, args, exposed, stalled,
                    spawned >>

CrashNext ==
    \/ Next
    \/ Crash
    \/ \E j \in Jobs : LockExpires(j)

SpecCrash == Init /\ [][CrashNext]_vars


\* ------------------------------------------- the grading step on any report
\* A job whose scanner stages have all returned, about to grade: Trivy's
\* report is any report within the bounds, and so is Gitleaks's where the
\* iteration runs it.
InitGrade ==
    /\ version \in Versions
    /\ connectionString = Queued(version)
    /\ response = [j \in Jobs |-> 200]
    /\ active = [j \in Jobs |-> 1]
    /\ rec = [j \in Jobs |->
                 [NoRow EXCEPT !.repo_url = CHOOSE r \in Repos : TRUE,
                               !.status =
                      IF Queued(version) THEN "QUEUED" ELSE "RUNNING"]]
    /\ queue = [j \in Jobs |->
                   IF Queued(version) THEN [state |-> "locked", attempts |-> 1]
                   ELSE [state |-> "none", attempts |-> 0]]
    /\ pc = [j \in Jobs |-> "grading"]
    /\ scanResults \in [Jobs -> TrivyReports]
    /\ gitleaksResults \in
           [Jobs -> IF HasSecretStage(version) THEN GitleaksReports ELSE {<< >>}]
    /\ \A j \in Jobs :
           ReportSize(scanResults[j]) + Len(gitleaksResults[j]) <= MaxFindings
    /\ viralLicenses = [j \in Jobs |-> << >>]
    /\ criticalVulns = [j \in Jobs |-> << >>]
    /\ grade = [j \in Jobs |-> "A"]
    /\ sbomUrl = [j \in Jobs |-> NoUrl]
    /\ pdfBuffer = [j \in Jobs |-> Null]
    /\ storage = NoObjects
    /\ fs = {}
    /\ att = [j \in Jobs |->
                 [NoAttempt EXCEPT !.starts =
                      [s \in Stages |-> IF s \in StagesOf(version) THEN 1 ELSE 0]]]
    /\ threw = [j \in Jobs |-> FALSE]
    /\ args = [j \in Jobs |-> [repo |-> rec[j].repo_url, token |-> Null]]
    /\ exposed = [j \in Jobs |-> {}]
    /\ stalled = {}
    /\ authRepo = [j \in Jobs |-> AuthRepo(args[j].repo, args[j].token)]
    /\ spawned = [j \in Jobs |->
                     UNION {Processes(l) :
                                l \in StageLines(StagesOf(version), authRepo[j])}]

GradeNext == \E j \in Jobs : Grading(j)

SpecGrade == InitGrade /\ [][GradeNext]_vars


\* ------------------------------------------- the scanner stages on any input
\* A job whose pipeline has been entered, about to compute authRepo and run
\* Trivy: its request carried any repo and token.
InitExec ==
    /\ version \in Versions
    /\ connectionString = Queued(version)
    /\ args \in [Jobs -> AnyRequests]
    /\ response = [j \in Jobs |-> 200]
    /\ active = [j \in Jobs |-> 1]
    /\ rec = [j \in Jobs |->
                 [NoRow EXCEPT !.repo_url = args[j].repo,
                               !.status =
                      IF Queued(version) THEN "QUEUED" ELSE "RUNNING"]]
    /\ queue = [j \in Jobs |->
                   IF Queued(version) THEN [state |-> "locked", attempts |-> 1]
                   ELSE [state |-> "none", attempts |-> 0]]
    /\ pc = [j \in Jobs |-> "trivy"]
    /\ scanResults = [j \in Jobs |-> EmptyObject]
    /\ gitleaksResults = [j \in Jobs |-> << >>]
    /\ viralLicenses = [j \in Jobs |-> << >>]
    /\ criticalVulns = [j \in Jobs |-> << >>]
    /\ grade = [j \in Jobs |-> "A"]
    /\ sbomUrl = [j \in Jobs |-> NoUrl]
    /\ pdfBuffer = [j \in Jobs |-> Null]
    /\ storage = NoObjects
    /\ fs = {}
    /\ att = [j \in Jobs |-> NoAttempt]
    /\ threw = [j \in Jobs |-> FALSE]
    /\ exposed = [j \in Jobs |->
                     IF Queued(version)
                     THEN Written({}, {"queue"}, << args[j].token >>, args[j].token)
                     ELSE {}]
    /\ stalled = {}
    /\ authRepo = [j \in Jobs |-> NoUrl]
    /\ spawned = [j \in Jobs |-> {}]

ExecNext ==
    \E j \in Jobs :
        \/ TrivyOk(j)
        \/ TrivyFails(j)
        \/ Sbom(j)
        \/ SbomUpload(j)
        \/ Clone(j)
        \/ Gitleaks(j)

SpecExec == InitExec /\ [][ExecNext]_vars


\* ----------------------------------------------------- claims on the grade
\* The grading step of job j has run and the pipeline stands right after it.
JustGraded(j) == pc[j] \in {"pdf", "update"}

ReportTargets(report) == IF report.Results = Absent THEN << >> ELSE report.Results[1]

\* Some license of the report carries an identifier of the viral list.
ReportHasViral(report) ==
    \E i \in DOMAIN ReportTargets(report) :
        LET t == ReportTargets(report)[i]
        IN  /\ t.Licenses # Absent
            /\ \E k \in DOMAIN t.Licenses[1] : IsViral(t.Licenses[1][k])

\* Some vulnerability of the report has severity CRITICAL.
ReportHasCritical(report) ==
    \E i \in DOMAIN ReportTargets(report) :
        LET t == ReportTargets(report)[i]
        IN  /\ t.Vulnerabilities # Absent
            /\ \E k \in DOMAIN t.Vulnerabilities[1] :
                   t.Vulnerabilities[1][k].Severity = "CRITICAL"

\* C1: whenever the secret scanner reported at least one finding, the grade
\* the pipeline computes is F, whatever Trivy reported.
C1_SecretForcesF ==
    \A j \in Jobs :
        (JustGraded(j) /\ Len(gitleaksResults[j]) >= 1) => grade[j] = "F"

C1_Witness ==
    \E j \in Jobs :
        /\ JustGraded(j)
        /\ Len(gitleaksResults[j]) >= 1
        /\ ReportHasCritical(scanResults[j])
        /\ grade[j] = "F"

\* C2: with no secret finding and no viral license but at least one CRITICAL
\* vulnerability, the computed grade is C.
C2_CriticalGivesC ==
    \A j \in Jobs :
        ( /\ JustGraded(j)
          /\ Len(gitleaksResults[j]) = 0
          /\ ~ReportHasViral(scanResults[j])
          /\ ReportHasCritical(scanResults[j]) ) => grade[j] = "C"

C2_Witness ==
    \E j \in Jobs :
        /\ JustGraded(j)
        /\ Len(gitleaksResults[j]) = 0
        /\ ~ReportHasViral(scanResults[j])
        /\ ReportHasCritical(scanResults[j])
        /\ ReportSize(scanResults[j]) >= 2
        /\ grade[j] = "C"

\* C3: with no secret finding, no viral license and no CRITICAL vulnerability
\* the computed grade is A, and the grade is always one of A, C, F.
C3_OtherwiseA ==
    \A j \in Jobs :
        /\ grade[j] \in {"A", "C", "F"}
        /\ ( /\ JustGraded(j)
             /\ Len(gitleaksResults[j]) = 0
             /\ ~ReportHasViral(scanResults[j])
             /\ ~ReportHasCritical(scanResults[j]) ) => grade[j] = "A"

\* Graded A on a report holding a HIGH vulnerability and a permissive license.
C3_Witness ==
    \E j \in Jobs :
        /\ JustGraded(j)
        /\ grade[j] = "A"
        /\ \E i \in DOMAIN ReportTargets(scanResults[j]) :
               LET t == ReportTargets(scanResults[j])[i]
               IN  /\ t.Vulnerabilities # Absent
                   /\ \E k \in DOMAIN t.Vulnerabilities[1] :
                          t.Vulnerabilities[1][k].Severity = "HIGH"
        /\ \E i \in DOMAIN ReportTargets(scanResults[j]) :
               LET t == ReportTargets(scanResults[j])[i]
               IN  /\ t.Licenses # Absent
                   /\ \E k \in DOMAIN t.Licenses[1] : t.Licenses[1][k].Name = MIT

Perms(n) == {f \in [1 .. n -> 1 .. n] : \A a, b \in 1 .. n : f[a] = f[b] => a = b}
Reorderings(s) == {[i \in 1 .. Len(s) |-> s[f[i]]] : f \in Perms(Len(s))}
OptReorderings(o) ==
    IF o = Absent THEN {Absent} ELSE {Present(s) : s \in Reorderings(o[1])}

\* The target with its licenses and its vulnerabilities in any order.
TargetReorderings(t) ==
    [Licenses : OptReorderings(t.Licenses),
     Vulnerabilities : OptReorderings(t.Vulnerabilities)]

RECURSIVE ReorderedInside(_)
\* The targets in the given order, each reordered inside.
ReorderedInside(targets) ==
    IF targets = << >> THEN {<< >>}
    ELSE {<< t >> \o rest : t \in TargetReorderings(Head(targets)),
                            rest \in ReorderedInside(Tail(targets))}

\* The report with its targets in any order, each reordered inside.
ReportReorderings(report) ==
    IF report.Results = Absent THEN {report}
    ELSE {[Results |-> Present(q)] :
             q \in UNION {ReorderedInside(p) : p \in Reorderings(report.Results[1])}}

\* The grade the deployed iteration computes from a Trivy report and a
\* Gitleaks report.
GradeOf(report, leaks) ==
    LET lists == CollectFindings(report)
    IN  GradeRule(version, lists.viral, lists.critical, leaks)

\* C4: the grade does not depend on the order of the targets, of the
\* licenses and vulnerabilities inside a target, or of the secret findings:
\* every reordering of the inputs of a graded job gives the grade it got.
C4_OrderIndependent ==
    \A j \in Jobs :
        JustGraded(j) =>
            LET orders == Reorderings(gitleaksResults[j])
            IN  \A report \in ReportReorderings(scanResults[j]) :
                    \A leaks \in orders : GradeOf(report, leaks) = grade[j]

\* A graded report whose two targets differ, only the second one carrying
\* the finding that decides the grade.
C4_Witness ==
    \E j \in Jobs :
        /\ JustGraded(j)
        /\ Len(ReportTargets(scanResults[j])) = 2
        /\ grade[j] # "A"
        /\ GradeOf([Results |-> Present(<< ReportTargets(scanResults[j])[1] >>)],
                   gitleaksResults[j]) = "A"
        /\ Cardinality(ReportReorderings(scanResults[j])) > 1


\* ------------------------------------------- claims on status and failures
\* The current attempt of job j has ended: the worker function returned or
\* threw.
Ended(j) == pc[j] \in {"returned", "thrown"}

\* The grade the grading policy gives the findings: F for a secret or a
\* viral license, else C for a CRITICAL vulnerability, else A.
PolicyGrade(report, leaks) ==
    IF Len(leaks) > 0 \/ ReportHasViral(report) THEN "F"
    ELSE IF ReportHasCritical(report) THEN "C" ELSE "A"

\* C5: a job whose pipeline ran to its end is recorded COMPLETED whatever
\* its grade, FAILED is never written to a row, and ERROR is written only
\* after an exception reached the outer catch.
C5_CompletedWhateverGrade ==
    \A j \in Jobs :
        /\ rec[j].status # "FAILED"
        /\ rec[j].status = "ERROR" => threw[j]
        /\ (Ended(j) /\ att[j].cause = Null /\ ~att[j].db)
               => rec[j].status = "COMPLETED"

\* C6: once a row has status COMPLETED no later step changes its status.
C6_CompletedIsFinal ==
    [][\A j \in Jobs :
           rec[j].status = "COMPLETED" => rec'[j].status = "COMPLETED"]_vars

\* C7: an attempt in which exactly one scanner stage failed, every other
\* stage delivered, and rendering, publishing, persistence and the webhook
\* worked ends with the row COMPLETED and graded on the findings of the
\* stages that delivered.
C7_SoftFailureCompletes ==
    \A j \in Jobs :
        ( /\ Ended(j)
          /\ Cardinality(att[j].failed) = 1
          /\ att[j].cause \in {Null, "trivy"}
          /\ att[j].publish \in {Null, "ok"}
          /\ ~att[j].db )
        => /\ rec[j].status = "COMPLETED"
           /\ rec[j].risk_grade = PolicyGrade(scanResults[j], gitleaksResults[j])

\* The pipeline of job j stands behind its scanner stages.
PastScanners(j) ==
    pc[j] \in {"grading", "pdf", "upload", "update", "catch", "returned", "thrown"}

\* C8: in one attempt of scan_repo no scanner stage is started twice, a
\* stage is reached only with every stage before it started, and behind the
\* scanner stages each of them has been started exactly once, whatever
\* failed.
C8_EachStageStartedOnce ==
    \A j \in Jobs :
        Queued(version) =>
            /\ \A s \in Stages : att[j].starts[s] <= 1
            /\ pc[j] \in {"sbom", "sbom_upload", "gitleaks", "detect"}
                   => att[j].starts["trivy"] = 1
            /\ (pc[j] \in {"gitleaks", "detect"} /\ HasSbomStage(version))
                   => att[j].starts["sbom"] = 1
            /\ PastScanners(j)
                   => \A s \in StagesOf(version) : att[j].starts[s] = 1

\* scan_repo reaches the grading with Trivy and the SBOM generation failed
\* and the secret stage started.
C8_Witness ==
    \E j \in Jobs :
        /\ version = "v9"
        /\ pc[j] = "grading"
        /\ {"trivy", "sbom"} \subseteq att[j].failed
        /\ att[j].starts["gitleaks"] = 1

\* C9: an attempt in which Trivy and the clone/secret scan both failed ends
\* with the row ERROR, not COMPLETED with a grade.
C9_AllScannersFailedIsError ==
    \A j \in Jobs :
        (Ended(j) /\ {"trivy", "gitleaks"} \subseteq att[j].failed /\ ~att[j].db)
            => rec[j].status = "ERROR"

\* C10: an attempt in which the upload of the certificate failed (the call
\* reported an error or threw) ends with the row ERROR and an error message
\* recorded.
C10_PublishFailureIsError ==
    \A j \in Jobs :
        (Ended(j) /\ att[j].publish \in {"error", "threw"} /\ ~att[j].db)
            => /\ rec[j].status = "ERROR"
               /\ rec[j].last_error # Null


\* ------------------------------------------ claims on links and hard failures
\* C11: a pdf_url or sbom_url stored in a row refers to an object that some
\* attempt of the job put into the bucket.
C11_NoDanglingLink ==
    \A j \in Jobs :
        /\ rec[j].pdf_url # NoUrl =>
               (rec[j].pdf_url = PublicUrl(PdfKey(j)) /\ PdfKey(j) \in DOMAIN storage)
        /\ rec[j].sbom_url # NoUrl =>
               (rec[j].sbom_url = PublicUrl(SbomKey(j)) /\ SbomKey(j) \in DOMAIN storage)

\* C12: when an exception has reached the outer catch of scan_repo, the step
\* that leaves the catch has written ERROR and the exception's message to
\* the row (where the store took the write) and hands the exception on to
\* the queue.
C12_HardFailureRecordedAndRethrown ==
    [][\A j \in Jobs :
          (Queued(version) /\ pc[j] = "catch" /\ pc'[j] # "catch")
              => /\ pc'[j] = "thrown"
                 /\ att[j].cause # Null
                 /\ \/ att'[j].db
                    \/ /\ rec'[j].status = "ERROR"
                       /\ rec'[j].last_error = att[j].cause]_vars

\* The second attempt of scan_repo has thrown on a failed upload, after the
\* queue gave the job again: the row is ERROR with that message.
C12_Witness ==
    \E j \in Jobs :
        /\ Queued(version)
        /\ pc[j] = "thrown"
        /\ queue[j].attempts = 2
        /\ att[j].cause = "upload"
        /\ rec[j].status = "ERROR"
        /\ rec[j].last_error = "upload"

\* C13: an attempt of scan_repo whose final update the store refused is
\* reported to the queue as failed, and the queue never counts a job done
\* whose row is still QUEUED.
C13_PersistenceFailureIsHard ==
    \A j \in Jobs :
        Queued(version) =>
            /\ (Ended(j) /\ att[j].db /\ att[j].cause = Null) => pc[j] = "thrown"
            /\ queue[j].state = "done" => rec[j].status # "QUEUED"

\* C14: the step a job takes at the head of its pipeline while an earlier
\* job for the same repository URL is COMPLETED (the repositories do not
\* change) starts no scanner and records the job COMPLETED with that job's
\* grade and links.
C14_CacheShortCircuit ==
    [][\A j, k \in PoolJobs :
          ( /\ k < j
            /\ rec[k].status = "COMPLETED"
            /\ rec[k].repo_url = rec[j].repo_url
            /\ pc[j] = "trivy"
            /\ pc'[j] # "trivy" )
          => /\ att'[j].starts = att[j].starts
             /\ rec'[j].status = "COMPLETED"
             /\ rec'[j].risk_grade = rec[k].risk_grade
             /\ rec'[j].pdf_url = rec[k].pdf_url
             /\ rec'[j].sbom_url = rec[k].sbom_url]_vars

\* C15: temp_<scanId> is on the disk only while the secret-scan stage of
\* the job runs: behind the stage, whichever way it went, and when the
\* attempt has ended, the directory is gone.
C15_WorkspaceRemoved ==
    \A j \in Jobs : TempDir(j) \in fs => pc[j] = "detect"

\* An attempt has ended COMPLETED although the secret scan failed inside the
\* cloned directory, and the directory is gone.
C15_Witness ==
    \E j \in Jobs :
        /\ Ended(j)
        /\ rec[j].status = "COMPLETED"
        /\ att[j].starts["gitleaks"] = 1
        /\ "gitleaks" \in att[j].failed
        /\ TempDir(j) \notin fs

\* C16: at most Concurrency pipelines are in progress at the same time.
C16_BoundedConcurrency ==
    Cardinality({j \in PoolJobs : active[j] > 0}) <= Concurrency

\* C17: no job has two executions of its pipeline in progress at the same
\* time, retries included.
C17_OneExecutionPerJob ==
    \A j \in PoolJobs : active[j] <= 1

\* A job is in its second attempt while another job is in progress too.
C17_Witness ==
    \E j, k \in PoolJobs :
        /\ j # k
        /\ queue[j].attempts = 2
        /\ active[j] = 1
        /\ active[k] = 1

\* C18: a request answered with a status other than 2xx has left no row in
\* the table and no job in the queue.
C18_FailedRequestLeavesNothing ==
    \A j \in Jobs :
        response[j] \in {400, 500} =>
            /\ rec[j].status = "ABSENT"
            /\ queue[j].state = "none"

\* Nothing will run for job j any more: no execution of its pipeline is
\* left and the queue holds no entry for it that a worker can still take.
AtRest(j) ==
    /\ \/ pc[j] = "none"
       \/ ~Queued(version) /\ pc[j] = "returned"
    /\ queue[j].state \in {"none", "done", "dead"}

\* C19: no row stays short of COMPLETED or ERROR: a job for which nothing
\* will run any more, process crashes included, has its row COMPLETED or
\* ERROR.
C19_NoJobStuck ==
    \A j \in Jobs :
        (rec[j].status # "ABSENT" /\ AtRest(j))
            => rec[j].status \in {"COMPLETED", "ERROR"}

\* C20: a row holds a grade or a certificate link only with status
\* COMPLETED, and a grade or link once set is never changed.
C20_ResultSetOnceWithSuccess ==
    [][\A j \in Jobs :
          /\ (rec'[j].risk_grade # Null \/ rec'[j].pdf_url # NoUrl)
                 => rec'[j].status = "COMPLETED"
          /\ rec[j].risk_grade # Null => rec'[j].risk_grade = rec[j].risk_grade
          /\ rec[j].pdf_url # NoUrl => rec'[j].pdf_url = rec[j].pdf_url]_vars

\* C21: no row is COMPLETED while its grade, its certificate link, its
\* inventory link (where the iteration has the SBOM stage) or its commit
\* identifier is unset: the update that writes the status writes them too.
C21_AtomicCompletion ==
    \A j \in Jobs :
        rec[j].status = "COMPLETED" =>
            /\ rec[j].risk_grade # Null
            /\ rec[j].pdf_url # NoUrl
            /\ HasSbomStage(version) => rec[j].sbom_url # NoUrl
            /\ rec[j].commit # Null

\* C22: the token of a request is never shown by a log line, an error
\* report, the row of the job or the payload of the queue's job.
C22_TokenNeverShown ==
    \A j \in Jobs : exposed[j] = {}

\* C23: a row is created with status QUEUED, and the step that first
\* records COMPLETED or ERROR finds the row RUNNING.
C23_QueuedRunningTerminal ==
    [][\A j \in Jobs :
          /\ (rec[j].status = "ABSENT" /\ rec'[j].status # "ABSENT")
                 => rec'[j].status = "QUEUED"
          /\ (rec'[j].status \in {"COMPLETED", "ERROR"}
                 /\ rec[j].status \notin {"COMPLETED", "ERROR"})
                 => rec[j].status = "RUNNING"]_vars

\* The objects of the bucket that belong to job j and are of the kind.
ObjectsOf(j, kind) == {k \in DOMAIN storage : k[1] = kind /\ k[2] = j}

\* C24: however many attempts a job has had, the bucket holds at most one
\* certificate and at most one inventory of the job, each under the name
\* made of the scanId, and no object that is not one of these.
C24_OneObjectPerJobAndKind ==
    /\ \A j \in Jobs :
           /\ Cardinality(ObjectsOf(j, "pdf")) <= 1
           /\ Cardinality(ObjectsOf(j, "sbom")) <= 1
    /\ \A k \in DOMAIN storage :
           \E j \in Jobs : rec[j].status # "ABSENT" /\ k \in {PdfKey(j), SbomKey(j)}

\* The inventory of a job has been uploaded by two attempts and is one
\* object.
C24_Witness ==
    \E j \in Jobs :
        /\ queue[j].attempts = 2
        /\ SbomKey(j) \in DOMAIN storage
        /\ storage[SbomKey(j)].writes = 2
        /\ Cardinality(ObjectsOf(j, "sbom")) = 1

C26_OnlyOwnWorkerWrites ==
    [][\A k \in PoolJobs :
          rec'[k] # rec[k] =>
              IF rec[k].status = "ABSENT"
              THEN /\ rec'[k].status \in {"QUEUED", "RUNNING"}
                   /\ rec'[k] = [NoRow EXCEPT !.status = rec'[k].status,
                                              !.repo_url = rec'[k].repo_url]
              ELSE pc'[k] # pc[k] /\ active[k] > 0]_vars

\* A job has written its result while the pipeline of another job is in
\* progress, and the row of that other job is as its request left it.
C26_Witness ==
    \E j, k \in PoolJobs :
        /\ j # k
        /\ pc[j] = "returned"
        /\ rec[j].status = "COMPLETED"
        /\ active[k] > 0
        /\ rec[k].status \in {"QUEUED", "RUNNING"}
        /\ rec[k].risk_grade = Null

\* The local files of job j that an await of j spans: the inventory trivy
\* wrote, until the upload has settled and the file is unlinked. (The
\* directory of the secret scan is made and removed within one synchronous
\* stretch, in which no other job runs.)
InUse(j) == IF pc[j] = "sbom_upload" THEN {SbomKey(j)} ELSE {}

\* C27: the local file a job is using is on the disk, and no other job is
\* using it.
C27_WorkspaceExclusive ==
    \A j \in PoolJobs :
        /\ InUse(j) \subseteq fs
        /\ \A k \in PoolJobs \ {j} : InUse(j) \cap InUse(k) = {}

\* Two jobs wait for the upload of their inventories at the same time,
\* each with its own file on the disk.
C27_Witness ==
    \E j, k \in PoolJobs :
        /\ j # k
        /\ pc[j] = "sbom_upload"
        /\ pc[k] = "sbom_upload"
        /\ {SbomKey(j), SbomKey(k)} \subseteq fs
        /\ SbomKey(j) # SbomKey(k)

\* C28: a scanner is invoked for a job only after POST /scan has answered
\* with the scan identifier.
C28_AnswerBeforeScanners ==
    \A j \in Jobs :
        (\E s \in Stages : att[j].starts[s] > 0) => response[j] = 200

\* C29: a job is attempted at most MaxAttempts times; once the queue has
\* given it up nothing runs for it and its row is not written any more,
\* and the row is ERROR where the store took the last attempt's write.
C29_BoundedRetry ==
    [][\A j \in Jobs :
          /\ queue'[j].attempts <= MaxAttempts
          /\ queue[j].state = "dead"
                 => /\ queue'[j] = queue[j]
                    /\ pc'[j] = "none"
                    /\ rec'[j] = rec[j]
          /\ (queue'[j].state = "dead" /\ ~att'[j].db)
                 => rec'[j].status = "ERROR"]_vars

\* The last attempt of a job has failed as the ones before: the queue has
\* given the job up and the row is ERROR.
C29_Witness ==
    \E j \in Jobs :
        /\ queue[j].state = "dead"
        /\ queue[j].attempts = MaxAttempts
        /\ threw[j]
        /\ pc[j] = "none"
        /\ rec[j].status = "ERROR"

\* C30: no job waits for a command that never returns: every command the
\* pipeline runs is cut off after a limit of time.
C30_EveryCommandTimesOut ==
    stalled = {}

\* -------------------------------------- claims on commands and credentials
\* The place of the repository URL in a command line.
Slot == << "<url>" >>

\* The processes the pipeline means to start for a URL: those its command
\* lines start for a URL of one word, with the URL for that word.
Intended(url) ==
    {[i \in DOMAIN argv |-> IF argv[i] = Slot THEN url ELSE argv[i]] :
        argv \in UNION {Processes(l) : l \in StageLines(Stages, Slot)}}

\* C31: whatever repo and token the request carried, every process the
\* pipeline starts is one the command lines name, with the URL (the token in
\* it) as one argument: no other program, no further argument, no further
\* command.
C31_InjectionFree ==
    \A j \in Jobs : spawned[j] \subseteq Intended(authRepo[j])

\* The URL names github.com as its host.
TargetsGithub(repo) ==
    /\ Len(repo) >= 2
    /\ repo[1] \in {"https://", "http://"}
    /\ repo[2] = "github.com"

\* https://<token>@<host>/<path>
Embedded(repo, token) == << "https://", token, "@" >> \o Tail(repo)

\* C32: the authenticated URL is https://<token>@<host>/<path> when the
\* request carried a token and the URL's host is github.com, and the
\* request's URL unchanged in every other case.
C32_CredentialInjection ==
    \A j \in Jobs :
        authRepo[j] # NoUrl =>
            authRepo[j] = IF args[j].token # Null /\ TargetsGithub(args[j].repo)
                          THEN Embedded(args[j].repo, args[j].token)
                          ELSE args[j].repo


\* -------------------------------------------- claims on retries and cleanup
\* C33: the secret stage of no attempt goes without its clone and scan
\* because temp_<scanId>, left by an attempt that died, is still there; so
\* no job is recorded COMPLETED with a grade that such a stage let pass.
C33_RetryStillScans ==
    \A j \in Jobs : ~att[j].refused

\* C34: sbom_<scanId>.json is on the disk only while the SBOM stage awaits
\* the upload: behind the stage, whichever way it ended, the file is gone.
C34_InventoryFileRemoved ==
    \A j \in Jobs : SbomKey(j) \in fs => pc[j] = "sbom_upload"

\* C35: a row with status COMPLETED has no last_error, also when an earlier
\* attempt of the job had recorded ERROR with a message.
C35_CompletedHasNoError ==
    \A j \in Jobs : rec[j].status = "COMPLETED" => rec[j].last_error = Null

\* C36: once nothing runs for a job any more and its row is COMPLETED, the
\* certificate stored under the row's pdf_url shows the grade the row
\* holds, whatever attempts, retries and failed uploads there were.
C36_CertificateAgrees ==
    \A j \in Jobs :
        (AtRest(j) /\ rec[j].status = "COMPLETED" /\ PdfKey(j) \in DOMAIN storage)
            => storage[PdfKey(j)].body.grade = rec[j].risk_grade


\* ------------------------------------------------- claim on license families
\* The family of a license identifier: what stands before the version, as
\* GPL in GPL-3 and LGPL in LGPL-2.
Family(name) ==
    IF Includes(name, << "-" >>) THEN SubSeq(name, 1, IndexOf(name, << "-" >>))
    ELSE name

\* The strong-copyleft families.
StrongCopyleft ==
    {<< "G", "P", "L" >>, << "A", "G", "P", "L" >>, << "S", "S", "P", "L" >>}

\* Some license of the report is of a strong-copyleft family.
ReportHasStrongCopyleft(report) ==
    \E i \in DOMAIN ReportTargets(report) :
        LET t == ReportTargets(report)[i]
        IN  /\ t.Licenses # Absent
            /\ \E k \in DOMAIN t.Licenses[1] :
                   Family(t.Licenses[1][k].Name) \in StrongCopyleft

\* C37: with no secret finding, the computed grade is F exactly when some
\* license of the report is of the family GPL, AGPL or SSPL; a license of
\* another family whose name holds one of these strings, as LGPL-2, does
\* not make the grade F.
C37_StrongCopyleftOnly ==
    \A j \in Jobs :
        (JustGraded(j) /\ Len(gitleaksResults[j]) = 0)
            => (grade[j] = "F" <=> ReportHasStrongCopyleft(scanResults[j]))

====
